---------------------------- MODULE Spec2Model ----------------------------
(***************************************************************************)
(* The simple debugger (sdb) of NEMU: nemu/src/monitor/sdb/sdb.c.           *)
(*                                                                         *)
(* A line is a sequence of one-character strings.  One step of the model   *)
(* is one iteration of the for loop of sdb_mainloop: rl_gets, strtok, the  *)
(* optional sdl_clear_event_queue, the lookup in cmd_table and the whole   *)
(* handler.  What the iteration did is left in ev, the log of the calls    *)
(* it made and of what it printed, in program order.                       *)
(***************************************************************************)
EXTENDS Integers, Sequences, FiniteSets, TLC

VARIABLES
    is_batch_mode,   \* static int is_batch_mode
    config_device,   \* whether the build defines CONFIG_DEVICE
    cmd_help_def,    \* which of the two definitions of cmd_help the build has
    pc,              \* "init" | "loop" | "returned" | "aborted"
    nemu_state,      \* nemu_state.state
    store,           \* the watchpoint pool: wp_pool, head, free_
    line_read,       \* static char *line_read of rl_gets: <<>> or <<line>>
    history,         \* readline's history list
    returned,        \* the lines readline has returned so far, in order
    linesRead,       \* number of calls of readline so far
    sdl_events,      \* number of pending SDL events
    ev               \* what the last step did, in order

vars == << is_batch_mode, config_device, cmd_help_def, pc, nemu_state, store,
           line_read, history, returned, linesRead, sdl_events, ev >>

-----------------------------------------------------------------------------
(* Bounds of the model. *)

\* lines the operator types in a run of Spec
MaxLines == 2
\* lines the operator types in a run of SpecCmd
MaxCmdLines == 2
\* lines the operator types in a run of SpecHist
MaxHistLines == 4
\* lines the operator types in a run of SpecWP
MaxWPLines == 3
\* size of the watchpoint pool
NR_WP == 2
\* SDL events that can be pending at once
MaxEvents == 1

\* values an uninitialised int may hold
UninitInts == {-1, 0, 1}

-----------------------------------------------------------------------------
(* Strings. *)

NULL == << >>

S_help == << "h", "e", "l", "p" >>
S_c    == << "c" >>
S_q    == << "q" >>
S_si   == << "s", "i" >>
S_info == << "i", "n", "f", "o" >>
S_x    == << "x" >>
S_p    == << "p" >>
S_w    == << "w" >>
S_d    == << "d" >>
S_r    == << "r" >>

\* one entry of the log ev: a call made or a text printed, with its string
\* and integer operands
EvD(t, s, n, d) == [t |-> t, s |-> s, n |-> n, h |-> 0, d |-> d]
Ev(t, s, n) == EvD(t, s, n, "")
\* an entry whose operand is an address
EvA(t, a) == [t |-> t, s |-> << >>, n |-> a.lo, h |-> a.hi, d |-> ""]

StrEq_prefix(a, b) == Len(a) <= Len(b) /\ SubSeq(b, 1, Len(a)) = a

\* strcmp(a, b) == 0
StrEq(a, b) == a = b

IsDelim_none(c) == FALSE

\* the delimiter set " " handed to strtok
IsDelim(c) == c = " "

RECURSIVE SkipDelims(_, _)
SkipDelims(s, p) ==
    IF p > Len(s) THEN p
    ELSE IF IsDelim(s[p]) THEN SkipDelims(s, p + 1) ELSE p

RECURSIVE TokEnd(_, _)
TokEnd(s, p) ==
    IF p > Len(s) THEN p
    ELSE IF IsDelim(s[p]) THEN p ELSE TokEnd(s, p + 1)

\* strtok on buffer s with the saved position p: the token (NULL when none
\* is left), where it begins and ends, and the new saved position
strtok(s, p) ==
    LET b == SkipDelims(s, p) IN
    IF b > Len(s)
    THEN [tok |-> NULL, b |-> b, e |-> b, next |-> Len(s) + 1]
    ELSE LET e == TokEnd(s, b) IN
         [tok |-> SubSeq(s, b, e - 1), b |-> b, e |-> e,
          next |-> IF e > Len(s) THEN e ELSE e + 1]

\* args = cmd + strlen(cmd) + 1; if (args >= str_end) args = NULL;
\* e is the position of the terminator of cmd, Len(s) + 1 that of str_end
ArgsOf(s, e) ==
    IF e + 1 >= Len(s) + 1 THEN NULL ELSE SubSeq(s, e + 1, Len(s))

-----------------------------------------------------------------------------
(* sscanf with one conversion. *)

\* the value of a digit character in the given base, -1 when it is none
DigitOf(c, base) ==
    LET v == CASE c = "0" -> 0 [] c = "1" -> 1 [] c = "2" -> 2 [] c = "3" -> 3
               [] c = "4" -> 4 [] c = "5" -> 5 [] c = "6" -> 6 [] c = "7" -> 7
               [] c = "8" -> 8 [] c = "9" -> 9 [] c = "a" -> 10 [] c = "b" -> 11
               [] c = "c" -> 12 [] c = "d" -> 13 [] c = "e" -> 14 [] c = "f" -> 15
               [] OTHER -> -1
    IN IF v < base THEN v ELSE -1

IsSpace(c) == c \in {" ", "\t", "\n"}

RECURSIVE SkipSpace(_, _)
SkipSpace(s, p) ==
    IF p > Len(s) THEN p
    ELSE IF IsSpace(s[p]) THEN SkipSpace(s, p + 1) ELSE p

\* the digits of s from p on: their value and how many there are
RECURSIVE AccDigits(_, _, _, _, _)
AccDigits(s, p, base, acc, cnt) ==
    IF p > Len(s) \/ DigitOf(s[p], base) < 0
    THEN [val |-> acc, cnt |-> cnt]
    ELSE AccDigits(s, p + 1, base, acc * base + DigitOf(s[p], base), cnt + 1)

\* the sign at position p: its factor and the position after it
SignAt(s, p) ==
    IF p <= Len(s) /\ s[p] = "-" THEN [f |-> -1, p |-> p + 1]
    ELSE IF p <= Len(s) /\ s[p] = "+" THEN [f |-> 1, p |-> p + 1]
    ELSE [f |-> 1, p |-> p]

\* sscanf(s, "%d", &n): whether n is assigned, and the value
ScanDec(s) ==
    LET sg == SignAt(s, SkipSpace(s, 1))
        r  == AccDigits(s, sg.p, 10, 0, 0)
    IN [ok |-> r.cnt > 0, val |-> sg.f * r.val]

\* vaddr_t is 32 bits wide: an address is kept as its two 16-bit halves
Half == 65536

Addr(hi, lo) == [hi |-> hi, lo |-> lo]

\* addr++
AddrInc(a) ==
    IF a.lo + 1 < Half THEN Addr(a.hi, a.lo + 1)
    ELSE Addr((a.hi + 1) % Half, 0)

\* -a, modulo 2^32
AddrNeg(a) == AddrInc(Addr(Half - 1 - a.hi, Half - 1 - a.lo))

\* the hexadecimal digits of s from p on, accumulated modulo 2^32
RECURSIVE AccHex(_, _, _, _)
AccHex(s, p, a, cnt) ==
    IF p > Len(s) \/ DigitOf(s[p], 16) < 0
    THEN [val |-> a, cnt |-> cnt]
    ELSE LET lo == a.lo * 16 + DigitOf(s[p], 16)
             hi == a.hi * 16 + (lo \div Half)
         IN AccHex(s, p + 1, Addr(hi % Half, lo % Half), cnt + 1)

\* sscanf(s, "%x", &addr): whether addr is assigned, and the value
ScanHex(s) ==
    LET sg == SignAt(s, SkipSpace(s, 1))
        px == /\ sg.p + 2 <= Len(s)
              /\ s[sg.p] = "0"
              /\ s[sg.p + 1] \in {"x", "X"}
              /\ DigitOf(s[sg.p + 2], 16) >= 0
        r  == AccHex(s, IF px THEN sg.p + 2 ELSE sg.p, Addr(0, 0), 0)
    IN [ok |-> r.cnt > 0, val |-> IF sg.f < 0 THEN AddrNeg(r.val) ELSE r.val]

\* values an uninitialised vaddr_t may hold
UninitAddrs == {Addr(0, 0), Addr(Half - 1, Half - 1)}

-----------------------------------------------------------------------------
(* The collaborators of sdb.c: the watchpoint pool, the expression         *)
(* evaluator, the execution engine.                                        *)

\* a WP * that points to no slot
NoWP == -1

Slots == 0 .. (NR_WP - 1)

\* the pool after init_wp_pool: every slot free
init_wp_pool ==
    [wp_pool |-> [i \in Slots |-> [expr |-> NULL, value |-> 0]],
     head    |-> << >>,
     free_   |-> [i \in 1 .. NR_WP |-> i - 1]]

SeqWithout(q, x) == SelectSeq(q, LAMBDA y : y # x)

InSeq(q, x) == \E i \in 1 .. Len(q) : q[i] = x

\* new_wp: the first free slot becomes active; no slot when none is free
new_wp(st) ==
    IF st.free_ = << >>
    THEN [wp |-> NoWP, store |-> st]
    ELSE [wp |-> Head(st.free_),
          store |-> [st EXCEPT !.free_ = Tail(@),
                               !.head = << Head(st.free_) >> \o @]]

\* free_wp: an active slot goes back to the free list; anything else is
\* left alone
free_wp(st, wp) ==
    IF InSeq(st.head, wp)
    THEN [st EXCEPT !.head = SeqWithout(@, wp), !.free_ = << wp >> \o @]
    ELSE st

\* free_wp_by_num: release the active watchpoint numbered n, if any
free_wp_by_num(st, n) ==
    IF InSeq(st.head, n) THEN free_wp(st, n) ELSE st

S_ra == << "r", "a" >>
S_sp == << "s", "p" >>

\* isa_reg_str2val: the value of the register named s, *success = false
\* when s names none
isa_reg_str2val(s) ==
    IF s = S_ra THEN [success |-> TRUE, value |-> 1]
    ELSE IF s = S_sp THEN [success |-> TRUE, value |-> 2]
    ELSE [success |-> FALSE, value |-> 0]

\* cpu_exec(n), isa_reg_display(), vaddr_read(addr, 1),
\* sdl_clear_event_queue(): the call as the log records it
cpu_exec(n) == Ev("cpu_exec", NULL, n)
isa_reg_display == Ev("isa_reg_display", NULL, 0)
vaddr_read(addr) == EvA("vaddr_read", addr)
sdl_clear_event_queue == Ev("sdl_clear_event_queue", NULL, 0)

-----------------------------------------------------------------------------
(* The command handlers.  A handler is given args, the line buffer s and   *)
(* the position p saved by the last strtok, the pool st and the run state  *)
(* ns; it yields the set of its possible outcomes.  ret is <<r>> when the  *)
(* handler returns r, and << >> when the process dies inside it.           *)

printf(fmt, s, n) == EvD("printf", s, n, fmt)
printfA(fmt, a) == [t |-> "printf", s |-> << >>, n |-> a.lo, h |-> a.hi, d |-> fmt]

SIGSEGV == Ev("SIGSEGV", NULL, 0)

Out(e, st, ns, r) == [ev |-> e, store |-> st, nemu_state |-> ns, ret |-> r]

cmd_c(args, s, p, st, ns) ==
    { Out(<< cpu_exec(-1) >>, st, ns, << 0 >>) }

cmd_q(args, s, p, st, ns) ==
    { Out(<< >>, st, "NEMU_QUIT", << -1 >>) }

cmd_si_nodefault(args, s, p, st, ns) ==
    LET arg == strtok(s, p).tok
        n   == IF arg # NULL /\ ScanDec(arg).ok THEN ScanDec(arg).val ELSE 0
    IN { Out(<< cpu_exec(n) >>, st, ns, << 0 >>) }

cmd_si_positive(args, s, p, st, ns) ==
    LET arg == strtok(s, p).tok
        n   == IF arg # NULL /\ ScanDec(arg).ok THEN ScanDec(arg).val ELSE 1
    IN { Out(<< cpu_exec(IF n <= 0 THEN 1 ELSE n) >>, st, ns, << 0 >>) }

cmd_si(args, s, p, st, ns) ==
    LET arg == strtok(s, p).tok
        n   == IF arg # NULL /\ ScanDec(arg).ok THEN ScanDec(arg).val ELSE 1
    IN { Out(<< cpu_exec(n) >>, st, ns, << 0 >>) }

\* the two strcmp of cmd_info, as the branch taken: "w", "r" or "none"
InfoBranch(br, st, ns) ==
    IF br = "w"
    THEN Out(<< printf("info r: print the information of registers\n", NULL, 0) >>,
             st, ns, << 0 >>)
    ELSE IF br = "r"
    THEN Out(<< isa_reg_display >>, st, ns, << 0 >>)
    ELSE Out(<< >>, st, ns, << 0 >>)

\* strcmp(arg, "w") with arg == NULL is undefined: the process dies, or
\* the comparisons come out either way
cmd_info(args, s, p, st, ns) ==
    LET arg == strtok(s, p).tok IN
    IF arg = NULL
    THEN { Out(<< SIGSEGV >>, st, ns, << >>) }
           \cup { InfoBranch(br, st, ns) : br \in {"w", "r", "none"} }
    ELSE { InfoBranch(IF StrEq(arg, S_w) THEN "w"
                      ELSE IF StrEq(arg, S_r) THEN "r" ELSE "none", st, ns) }

\* the four reads of one row of cmd_x, from addr on
RECURSIVE XBytes(_, _)
XBytes(j, addr) ==
    IF j >= 4 THEN << >>
    ELSE << vaddr_read(addr), printf("0x%02x ", NULL, 0) >>
           \o XBytes(j + 1, AddrInc(addr))

AddrPlus4(a) == AddrInc(AddrInc(AddrInc(AddrInc(a))))

RECURSIVE XRows_samerow(_, _, _)
XRows_samerow(i, n, addr) ==
    IF i >= n THEN << >>
    ELSE << printfA("0x%08x: ", addr) >> \o XBytes(0, addr)
           \o << printf("\n", NULL, 0) >> \o XRows_samerow(i + 1, n, addr)

\* rows i .. n-1 of cmd_x
RECURSIVE XRows(_, _, _)
XRows(i, n, addr) ==
    IF i >= n THEN << >>
    ELSE << printfA("0x%08x: ", addr) >> \o XBytes(0, addr)
           \o << printf("\n", NULL, 0) >> \o XRows(i + 1, n, AddrPlus4(addr))

\* n and addr are not initialised: a failed sscanf leaves them as they were
cmd_x(args, s, p, st, ns) ==
    LET t1 == strtok(s, p)
        t2 == strtok(s, t1.next)
    IN IF t1.tok = NULL \/ t2.tok = NULL
       THEN { Out(<< printf("x N EXPR: scan memory\n", NULL, 0) >>, st, ns, << 0 >>) }
       ELSE LET ns1 == IF ScanDec(t1.tok).ok THEN {ScanDec(t1.tok).val} ELSE UninitInts
                as1 == IF ScanHex(t2.tok).ok THEN {ScanHex(t2.tok).val} ELSE UninitAddrs
            IN { Out(XRows(0, n, addr), st, ns, << 0 >>) : n \in ns1, addr \in as1 }

cmd_p_swapped(args, s, p, st, ns) ==
    LET arg == strtok(s, p).tok IN
    IF arg = NULL
    THEN { Out(<< printf("p EXPR: print the value of expression\n", NULL, 0) >>,
               st, ns, << 0 >>) }
    ELSE LET r == isa_reg_str2val(arg) IN
         { Out(<< Ev("isa_reg_str2val", arg, 0),
                  IF ~r.success THEN printf("%d\n", NULL, r.value)
                  ELSE printf("Invalid expression\n", NULL, 0) >>,
               st, ns, << 0 >>) }

cmd_p(args, s, p, st, ns) ==
    LET arg == strtok(s, p).tok IN
    IF arg = NULL
    THEN { Out(<< printf("p EXPR: print the value of expression\n", NULL, 0) >>,
               st, ns, << 0 >>) }
    ELSE LET r == isa_reg_str2val(arg) IN
         { Out(<< Ev("isa_reg_str2val", arg, 0),
                  IF r.success THEN printf("%d\n", NULL, r.value)
                  ELSE printf("Invalid expression\n", NULL, 0) >>,
               st, ns, << 0 >>) }

cmd_w_slot_nofree(arg, wp, st1, ns) ==
    LET r   == isa_reg_str2val(arg)
        st2 == [st1 EXCEPT !.wp_pool[wp] = [expr |-> arg, value |-> r.value]]
    IN IF r.success
       THEN Out(<< Ev("new_wp", NULL, wp), Ev("isa_reg_str2val", arg, 0) >>,
                st2, ns, << 0 >>)
       ELSE Out(<< Ev("new_wp", NULL, wp), Ev("isa_reg_str2val", arg, 0),
                   printf("Invalid expression\n", NULL, 0) >>,
                st2, ns, << 0 >>)

cmd_w_slot_noexpr(arg, wp, st1, ns) ==
    LET r   == isa_reg_str2val(arg)
        st2 == [st1 EXCEPT !.wp_pool[wp].value = r.value]
    IN IF r.success
       THEN Out(<< Ev("new_wp", NULL, wp), Ev("isa_reg_str2val", arg, 0) >>,
                st2, ns, << 0 >>)
       ELSE Out(<< Ev("new_wp", NULL, wp), Ev("isa_reg_str2val", arg, 0),
                   printf("Invalid expression\n", NULL, 0), Ev("free_wp", NULL, wp) >>,
                free_wp(st2, wp), ns, << 0 >>)

\* cmd_w once new_wp has handed out slot wp of pool st1
cmd_w_slot(arg, wp, st1, ns) ==
    LET r   == isa_reg_str2val(arg)
        st2 == [st1 EXCEPT !.wp_pool[wp] = [expr |-> arg, value |-> r.value]]
    IN IF r.success
       THEN Out(<< Ev("new_wp", NULL, wp), Ev("isa_reg_str2val", arg, 0) >>,
                st2, ns, << 0 >>)
       ELSE Out(<< Ev("new_wp", NULL, wp), Ev("isa_reg_str2val", arg, 0),
                   printf("Invalid expression\n", NULL, 0), Ev("free_wp", NULL, wp) >>,
                free_wp(st2, wp), ns, << 0 >>)

\* cmd_w when new_wp handed out no slot: strcpy and the store of the value
\* go through a null pointer, which is undefined: the process dies, or the
\* two writes land outside the pool and the handler goes on
cmd_w_noslot(arg, st1, ns) ==
    LET r == isa_reg_str2val(arg) IN
    { Out(<< Ev("new_wp", NULL, NoWP), SIGSEGV >>, st1, ns, << >>),
      Out(<< Ev("new_wp", NULL, NoWP), Ev("write_null", arg, 0),
             Ev("isa_reg_str2val", arg, 0), Ev("write_null", NULL, r.value) >>
          \o (IF r.success THEN << >>
              ELSE << printf("Invalid expression\n", NULL, 0),
                      Ev("free_wp", NULL, NoWP) >>),
          IF r.success THEN st1 ELSE free_wp(st1, NoWP), ns, << 0 >>) }

cmd_w(args, s, p, st, ns) ==
    LET arg == strtok(s, p).tok IN
    IF arg = NULL
    THEN { Out(<< printf("w EXPR: set watchpoint\n", NULL, 0) >>, st, ns, << 0 >>) }
    ELSE LET a == new_wp(st) IN
         IF a.wp = NoWP THEN cmd_w_noslot(arg, a.store, ns)
         ELSE { cmd_w_slot(arg, a.wp, a.store, ns) }

cmd_d_next(args, s, p, st, ns) ==
    LET arg == strtok(s, p).tok IN
    IF arg = NULL
    THEN { Out(<< printf("d N: delete watchpoint\n", NULL, 0) >>, st, ns, << 0 >>) }
    ELSE LET ns1 == IF ScanDec(arg).ok THEN {ScanDec(arg).val} ELSE UninitInts IN
         { Out(<< Ev("free_wp_by_num", NULL, n + 1) >>, free_wp_by_num(st, n + 1),
               ns, << 0 >>)
           : n \in ns1 }

\* n is not initialised: a failed sscanf leaves it as it was
cmd_d(args, s, p, st, ns) ==
    LET arg == strtok(s, p).tok IN
    IF arg = NULL
    THEN { Out(<< printf("d N: delete watchpoint\n", NULL, 0) >>, st, ns, << 0 >>) }
    ELSE LET ns1 == IF ScanDec(arg).ok THEN {ScanDec(arg).val} ELSE UninitInts IN
         { Out(<< Ev("free_wp_by_num", NULL, n) >>, free_wp_by_num(st, n), ns, << 0 >>)
           : n \in ns1 }

cmd_table ==
    << [name |-> S_help, handler |-> "cmd_help",
        description |-> "Display information about all supported commands"],
       [name |-> S_c, handler |-> "cmd_c",
        description |-> "Continue the execution of the program"],
       [name |-> S_q, handler |-> "cmd_q", description |-> "Exit NEMU"],
       [name |-> S_si, handler |-> "cmd_si", description |-> "step N commands"],
       [name |-> S_info, handler |-> "cmd_info",
        description |-> "print the information of registers"],
       [name |-> S_x, handler |-> "cmd_x", description |-> "scan memory"],
       [name |-> S_p, handler |-> "cmd_p",
        description |-> "print the value of expression"],
       [name |-> S_w, handler |-> "cmd_w", description |-> "set watchpoint"],
       [name |-> S_d, handler |-> "cmd_d", description |-> "delete watchpoint"] >>

NR_CMD == Len(cmd_table)

RECURSIVE FindCmd_last(_, _)
FindCmd_last(cmd, from) ==
    IF from >= NR_CMD THEN from
    ELSE IF StrEq(cmd, cmd_table[from].name) THEN from
    ELSE FindCmd_last(cmd, from + 1)

\* the first i >= from with strcmp(cmd, cmd_table[i].name) == 0, NR_CMD + 1
\* when there is none (the table is indexed from 1 here)
RECURSIVE FindCmd(_, _)
FindCmd(cmd, from) ==
    IF from > NR_CMD THEN from
    ELSE IF StrEq(cmd, cmd_table[from].name) THEN from
    ELSE FindCmd(cmd, from + 1)

\* printf("%s - %s\n", cmd_table[i].name, cmd_table[i].description)
HelpLine(i) == EvD("printf", cmd_table[i].name, i, cmd_table[i].description)

\* the first definition of cmd_help, before cmd_table: nine printf of a
\* fixed text "name: description", whatever the arguments
cmd_help_first(args, s, p, st, ns) ==
    { Out(<< EvD("printf", S_help, 0, "Display information about all supported commands"),
             EvD("printf", S_c, 0, "Continue the execution of the program"),
             EvD("printf", S_q, 0, "Exit NEMU"),
             EvD("printf", S_si, 0, "step N commands"),
             EvD("printf", S_info, 0, "print the information of registers"),
             EvD("printf", S_x, 0, "scan memory"),
             EvD("printf", S_p, 0, "print the value of expression"),
             EvD("printf", S_w, 0, "set watchpoint"),
             EvD("printf", S_d, 0, "delete watchpoint") >>,
          st, ns, << 0 >>) }

\* the second definition of cmd_help, after cmd_table
cmd_help(args, s, p, st, ns) ==
    LET arg == strtok(s, p).tok IN
    IF arg = NULL
    THEN { Out([i \in 1 .. NR_CMD |-> HelpLine(i)], st, ns, << 0 >>) }
    ELSE LET i == FindCmd(arg, 1) IN
         IF i <= NR_CMD THEN { Out(<< HelpLine(i) >>, st, ns, << 0 >>) }
         ELSE { Out(<< printf("Unknown command '%s'\n", arg, 0) >>, st, ns, << 0 >>) }

\* cmd_table[i].handler(args)
Call(h, args, s, p, st, ns) ==
    CASE h = "cmd_help" -> IF cmd_help_def = "first"
                           THEN cmd_help_first(args, s, p, st, ns)
                           ELSE cmd_help(args, s, p, st, ns)
      [] h = "cmd_c"    -> cmd_c(args, s, p, st, ns)
      [] h = "cmd_q"    -> cmd_q(args, s, p, st, ns)
      [] h = "cmd_si"   -> cmd_si(args, s, p, st, ns)
      [] h = "cmd_info" -> cmd_info(args, s, p, st, ns)
      [] h = "cmd_x"    -> cmd_x(args, s, p, st, ns)
      [] h = "cmd_p"    -> cmd_p(args, s, p, st, ns)
      [] h = "cmd_w"    -> cmd_w(args, s, p, st, ns)
      [] h = "cmd_d"    -> cmd_d(args, s, p, st, ns)

-----------------------------------------------------------------------------
(* The lines the operator types. *)

SP == " "
TAB == "\t"

L_empty  == << >>
L_space  == << SP, SP >>
L_tab    == << TAB >>
L_sptab  == << SP, TAB, SP >>
L_q      == << "q" >>
L_q_1    == << "q", SP, "1" >>
L_c      == << "c" >>
L_help   == << "h", "e", "l", "p" >>
L_si     == << "s", "i" >>
L_si_2   == << "s", "i", SP, "2" >>
L_info   == << "i", "n", "f", "o" >>
L_info_  == << "i", "n", "f", "o", SP, SP >>
L_info_r == << "i", "n", "f", "o", SP, "r" >>
L_x      == << "x" >>
L_x_z_1  == << "x", SP, "z", SP, "1" >>
L_x_1_10 == << "x", SP, "1", SP, "1", "0" >>
L_p_ra   == << "p", SP, "r", "a" >>
L_w      == << "w" >>
L_w_ra   == << "w", SP, "r", "a" >>
L_w_sp   == << "w", SP, SP, "s", "p", SP >>
L_w_z    == << "w", SP, "z" >>
L_d      == << "d" >>
L_d_0    == << "d", SP, "0" >>
L_d_1    == << "d", SP, "1" >>
L_d_5    == << "d", SP, "5" >>
L_d_z    == << "d", SP, "z" >>
L_z      == << "z" >>
L_s      == << "s" >>
L_qq     == << "q", "q" >>
L_sp_q   == << SP, "q" >>

\* the lines of a run of Spec
Lines ==
    { L_empty, L_space, L_tab, L_sptab, L_q, L_q_1, L_c, L_help, L_si, L_si_2,
      L_info, L_info_, L_info_r, L_x, L_x_z_1, L_x_1_10, L_p_ra, L_w, L_w_ra,
      L_w_z, L_d, L_d_0, L_d_5, L_d_z, L_z, L_s, L_qq, L_sp_q }

L_si_1   == << "s", "i", SP, "1" >>
L_si_12  == << "s", "i", SP, "1", "2" >>
L_si_z   == << "s", "i", SP, "z" >>
L_si_m1  == << "s", "i", SP, "-", "1" >>
L_si_0   == << "s", "i", SP, "0" >>
L_x_2    == << "x", SP, "2" >>
L_x_2_10 == << "x", SP, "2", SP, "1", "0" >>
L_x_0_10 == << "x", SP, "0", SP, "1", "0" >>
L_x_2_0x1000 == << "x", SP, "2", SP, "0", "x", "1", "0", "0", "0" >>
L_x_1_ffffffff == << "x", SP, "1", SP, "f", "f", "f", "f", "f", "f", "f", "f" >>
L_info_w == << "i", "n", "f", "o", SP, "w" >>
L_info_z == << "i", "n", "f", "o", SP, "z" >>
L_help_q == << "h", "e", "l", "p", SP, "q" >>
L_help_z == << "h", "e", "l", "p", SP, "z" >>
L_p      == << "p" >>
L_p_z    == << "p", SP, "z" >>
L_p_ra_sp == << "p", SP, "r", "a", SP, "s", "p" >>

\* the lines of a run of SpecCmd: the execution and inspection commands
CmdLines ==
    { L_c, L_si, L_si_1, L_si_2, L_si_12, L_si_z, L_si_m1, L_si_0,
      L_x, L_x_2, L_x_2_10, L_x_0_10, L_x_2_0x1000, L_x_1_ffffffff,
      L_info_r, L_info_w, L_info_z, L_help, L_help_q, L_help_z,
      L_p, L_p_ra, L_p_z, L_p_ra_sp, L_w_ra }

\* the lines of a run of SpecHist: empty and non-empty ones
HistLines == { L_empty, L_space, L_z, L_help }

\* the lines of a run of SpecWP: the watchpoint commands
WPLines == { L_w, L_w_ra, L_w_sp, L_w_z, L_d, L_d_0, L_d_1, L_d_5, L_d_z }

-----------------------------------------------------------------------------
(* sdb_mainloop. *)

LoopControl_ignore(r) == "loop"

\* if (cmd_table[i].handler(args) < 0) { return; } break;
LoopControl(r) == IF r < 0 THEN "returned" ELSE "loop"

LoopBody_drainlast(s, st, ns, dev, pending) ==
    LET c == strtok(s, 1) IN
    IF c.tok = NULL
    THEN { [ev |-> << >>, store |-> st, nemu_state |-> ns, pc |-> "loop",
            sdl_events |-> pending] }
    ELSE LET args  == ArgsOf(s, c.e)
             drain == IF dev THEN << sdl_clear_event_queue >> ELSE << >>
             left  == IF dev THEN 0 ELSE pending
             i     == FindCmd(c.tok, 1)
         IN IF i > NR_CMD
            THEN { [ev |-> << printf("Unknown command '%s'\n", c.tok, 0) >> \o drain,
                    store |-> st, nemu_state |-> ns, pc |-> "loop",
                    sdl_events |-> left] }
            ELSE { [ev |-> << EvD("call", cmd_table[i].name, 0, cmd_table[i].handler) >>
                           \o o.ev
                           \o (IF o.ret = << >> THEN << >>
                               ELSE << Ev("return", cmd_table[i].name, o.ret[1]) >>)
                           \o drain,
                    store |-> o.store, nemu_state |-> o.nemu_state,
                    pc |-> IF o.ret = << >> THEN "aborted" ELSE LoopControl(o.ret[1]),
                    sdl_events |-> left]
                   : o \in Call(cmd_table[i].handler, args, s, c.next, st, ns) }

\* the body of the for loop of sdb_mainloop on the line s, from strtok on:
\* the set of its possible outcomes.  dev says whether CONFIG_DEVICE is
\* defined, pending is the number of pending SDL events.
LoopBody(s, st, ns, dev, pending) ==
    LET c == strtok(s, 1) IN
    IF c.tok = NULL
    THEN { [ev |-> << >>, store |-> st, nemu_state |-> ns, pc |-> "loop",
            sdl_events |-> pending] }
    ELSE LET args  == ArgsOf(s, c.e)
             drain == IF dev THEN << sdl_clear_event_queue >> ELSE << >>
             left  == IF dev THEN 0 ELSE pending
             i     == FindCmd(c.tok, 1)
         IN IF i > NR_CMD
            THEN { [ev |-> drain \o << printf("Unknown command '%s'\n", c.tok, 0) >>,
                    store |-> st, nemu_state |-> ns, pc |-> "loop",
                    sdl_events |-> left] }
            ELSE { [ev |-> drain \o << EvD("call", cmd_table[i].name, 0, cmd_table[i].handler) >>
                           \o o.ev
                           \o (IF o.ret = << >> THEN << >>
                               ELSE << Ev("return", cmd_table[i].name, o.ret[1]) >>),
                    store |-> o.store, nemu_state |-> o.nemu_state,
                    pc |-> IF o.ret = << >> THEN "aborted" ELSE LoopControl(o.ret[1]),
                    sdl_events |-> left]
                   : o \in Call(cmd_table[i].handler, args, s, c.next, st, ns) }

\* rl_gets up to the call of readline: the buffer of the last line is freed
rl_gets_free == IF line_read # << >> THEN << Ev("free", line_read[1], 0) >> ELSE << >>

\* rl_gets once readline has returned the line l
rl_gets_line(l) ==
    rl_gets_free \o << Ev("readline", NULL, 0) >>
    \o (IF l # << >> THEN << Ev("add_history", l, 0) >> ELSE << >>)

rl_gets_history_all(h, l) == Append(h, l)

\* if (line_read && *line_read) add_history(line_read);
rl_gets_history(h, l) == IF l # << >> THEN Append(h, l) ELSE h

InLoop == \/ pc = "init" /\ ~is_batch_mode
          \/ pc = "loop"

Init ==
    /\ is_batch_mode = FALSE
    /\ config_device \in BOOLEAN
    /\ cmd_help_def \in {"first", "second"}
    /\ pc = "init"
    /\ nemu_state = "NEMU_STOP"
    /\ store = init_wp_pool
    /\ line_read = << >>
    /\ history = << >>
    /\ returned = << >>
    /\ linesRead = 0
    /\ sdl_events = 0
    /\ ev = << >>

\* sdb_set_batch_mode, called before sdb_mainloop
sdb_set_batch_mode ==
    /\ pc = "init"
    /\ ~is_batch_mode
    /\ is_batch_mode' = TRUE
    /\ UNCHANGED << config_device, cmd_help_def, pc, nemu_state, store,
                    line_read, history, returned, linesRead, sdl_events, ev >>

sdb_mainloop_batch_noreturn ==
    /\ pc = "init"
    /\ is_batch_mode
    /\ \E o \in cmd_c(NULL, NULL, 1, store, nemu_state) :
          /\ ev' = << EvD("call", S_c, 0, "cmd_c") >> \o o.ev
                   \o << Ev("return", S_c, o.ret[1]) >>
          /\ store' = o.store
          /\ nemu_state' = o.nemu_state
    /\ pc' = "loop"
    /\ UNCHANGED << is_batch_mode, config_device, cmd_help_def, line_read,
                    history, returned, linesRead, sdl_events >>

\* sdb_mainloop in batch mode: cmd_c(NULL); return;
sdb_mainloop_batch ==
    /\ pc = "init"
    /\ is_batch_mode
    /\ \E o \in cmd_c(NULL, NULL, 1, store, nemu_state) :
          /\ ev' = << EvD("call", S_c, 0, "cmd_c") >> \o o.ev
                   \o << Ev("return", S_c, o.ret[1]) >>
          /\ store' = o.store
          /\ nemu_state' = o.nemu_state
    /\ pc' = "returned"
    /\ UNCHANGED << is_batch_mode, config_device, cmd_help_def, line_read,
                    history, returned, linesRead, sdl_events >>

\* one iteration of the for loop: readline returns the line l
sdb_mainloop_line(l) ==
    /\ InLoop
    /\ line_read' = << l >>
    /\ history' = rl_gets_history(history, l)
    /\ returned' = Append(returned, l)
    /\ linesRead' = linesRead + 1
    /\ \E o \in LoopBody(l, store, nemu_state, config_device, sdl_events) :
          /\ ev' = rl_gets_line(l) \o o.ev
          /\ store' = o.store
          /\ nemu_state' = o.nemu_state
          /\ pc' = o.pc
          /\ sdl_events' = o.sdl_events
    /\ UNCHANGED << is_batch_mode, config_device, cmd_help_def >>

\* readline returns NULL at the end of the input: the loop ends
sdb_mainloop_eof ==
    /\ InLoop
    /\ line_read' = << >>
    /\ linesRead' = linesRead + 1
    /\ ev' = rl_gets_free \o << Ev("readline", NULL, 0) >>
    /\ pc' = "returned"
    /\ UNCHANGED << is_batch_mode, config_device, cmd_help_def, nemu_state,
                    store, history, returned, sdl_events >>

\* the device queues an SDL event while the monitor waits for a line
sdl_event ==
    /\ InLoop
    /\ sdl_events < MaxEvents
    /\ sdl_events' = sdl_events + 1
    /\ UNCHANGED << is_batch_mode, config_device, cmd_help_def, pc, nemu_state,
                    store, line_read, history, returned, linesRead, ev >>

Next ==
    \/ sdb_set_batch_mode
    \/ sdb_mainloop_batch
    \/ linesRead < MaxLines /\ \E l \in Lines : sdb_mainloop_line(l)
    \/ linesRead < MaxLines /\ sdb_mainloop_eof
    \/ sdl_event

Spec == Init /\ [][Next]_vars

NextCmd ==
    \/ linesRead < MaxCmdLines /\ \E l \in CmdLines : sdb_mainloop_line(l)
    \/ linesRead < MaxCmdLines /\ sdb_mainloop_eof
    \/ sdl_event

SpecCmd == Init /\ [][NextCmd]_vars

NextHist ==
    \/ linesRead < MaxHistLines /\ \E l \in HistLines : sdb_mainloop_line(l)
    \/ linesRead < MaxHistLines /\ sdb_mainloop_eof
    \/ sdl_event

SpecHist == Init /\ [][NextHist]_vars

NextWP ==
    \/ linesRead < MaxWPLines /\ \E l \in WPLines : sdb_mainloop_line(l)
    \/ linesRead < MaxWPLines /\ sdb_mainloop_eof
    \/ sdl_event

SpecWP == Init /\ [][NextWP]_vars

-----------------------------------------------------------------------------
(* What the claims speak of. *)

CmdNames == { cmd_table[i].name : i \in 1 .. NR_CMD }

\* the handler the table of section 6 of the spec gives each name
Registered(name) ==
    CASE name = S_help -> "cmd_help" [] name = S_c -> "cmd_c"
      [] name = S_q -> "cmd_q" [] name = S_si -> "cmd_si"
      [] name = S_info -> "cmd_info" [] name = S_x -> "cmd_x"
      [] name = S_p -> "cmd_p" [] name = S_w -> "cmd_w"
      [] name = S_d -> "cmd_d"

Calls(e) == SelectSeq(e, LAMBDA x : x.t = "call")
Returns(e) == SelectSeq(e, LAMBDA x : x.t = "return")
Logged(e, t) == \E i \in 1 .. Len(e) : e[i].t = t
Printed(e, fmt) == \E i \in 1 .. Len(e) : e[i].t = "printf" /\ e[i].d = fmt

\* the first and the second token of a line
Cmd(l) == strtok(l, 1).tok
Arg1(l) == strtok(l, strtok(l, 1).next).tok

\* the last step produced Terminate
Terminated == \E i \in 1 .. Len(ev) : ev[i].t = "return" /\ ev[i].n < 0

\* this step is an iteration of the loop that read a line
LineStep == linesRead' = linesRead + 1 /\ line_read' # << >>

Occupancy(st) == Len(st.head)

-----------------------------------------------------------------------------
\* C1: once a handler has returned a negative result, sdb_mainloop has
\* returned and nothing happens any more: no line is read, nothing is
\* dispatched, and no second termination can follow.
C1_TerminateStopsLoop ==
    [][Terminated => (pc = "returned" /\ linesRead' = linesRead /\ ev' = ev)]_vars

\* q was typed as the first line, with lines left to type
C1_Witness ==
    /\ ~is_batch_mode
    /\ Terminated
    /\ pc = "returned"
    /\ linesRead = 1
    /\ linesRead < MaxLines

\* C2: the handler of q sets the run state to NEMU_QUIT and returns -1,
\* whatever its arguments; every other handler, once called, returns 0.
C2_HandlerResults ==
    LET c == Calls(ev) IN
    c # << >> =>
        IF c[1].s = S_q
        THEN nemu_state = "NEMU_QUIT" /\ Returns(ev) = << Ev("return", S_q, -1) >>
        ELSE Returns(ev) = << Ev("return", c[1].s, 0) >>

\* C3: in interactive mode only q and the end of the input end the session:
\* after any other line the shell is alive and the loop goes on.
C3_OnlyQuitOrEofEnds ==
    (~is_batch_mode /\ line_read # << >> /\ Cmd(line_read[1]) # S_q)
        => pc = "loop"

\* C4: a line whose first token is a registered name calls the handler
\* registered under that name, once, and nothing else; any other line, a
\* prefix or an extension of a name included, calls no handler.
C4_ExactDispatch ==
    line_read # << >> =>
        LET tok == Cmd(line_read[1]) IN
        IF tok \in CmdNames
        THEN Calls(ev) = << EvD("call", tok, 0, Registered(tok)) >>
        ELSE Calls(ev) = << >>

\* the line "s", a prefix of "si", called nothing and was reported unknown
C4_Witness ==
    /\ line_read = << L_s >>
    /\ Calls(ev) = << >>
    /\ Printed(ev, "Unknown command '%s'\n")

\* this step dispatched a line whose first token is no registered name
UnknownStep ==
    /\ LineStep
    /\ Cmd(line_read'[1]) # NULL
    /\ Cmd(line_read'[1]) \notin CmdNames

\* C5 as claimed: dispatching an unregistered token reports it and leaves
\* the run state, the pool, the session mode and the pending events as
\* they were, and the loop goes on.
C5_UnknownChangesNothing ==
    [][UnknownStep =>
          /\ Printed(ev', "Unknown command '%s'\n")
          /\ nemu_state' = nemu_state
          /\ store' = store
          /\ is_batch_mode' = is_batch_mode
          /\ sdl_events' = sdl_events
          /\ pc' = "loop"]_vars

\* C5, amended: dispatching an unregistered token reports it, calls no
\* handler, and leaves the run state, the pool and the session mode as
\* they were, and the loop goes on; the pending events are left as they
\* were only in a build without CONFIG_DEVICE, with it they are drained.
C5_UnknownChangesNothingButEvents ==
    [][UnknownStep =>
          /\ Printed(ev', "Unknown command '%s'\n")
          /\ Calls(ev') = << >>
          /\ nemu_state' = nemu_state
          /\ store' = store
          /\ is_batch_mode' = is_batch_mode
          /\ sdl_events' = (IF config_device THEN 0 ELSE sdl_events)
          /\ pc' = "loop"]_vars

\* the unknown line "z" was dispatched in a build with CONFIG_DEVICE: the
\* event queue was drained, the token reported
C5_Witness ==
    /\ line_read = << L_z >>
    /\ config_device
    /\ Logged(ev, "sdl_clear_event_queue")
    /\ sdl_events = 0
    /\ Printed(ev, "Unknown command '%s'\n")
    /\ pc = "loop"

\* the line is made of spaces and tabs only
AllWhitespace(l) == \A i \in 1 .. Len(l) : l[i] \in {SP, TAB}
AllSpaces(l) == \A i \in 1 .. Len(l) : l[i] = SP

\* C6 as claimed: a line of spaces and tabs only is ignored: no handler is
\* called, nothing is reported, the loop goes on.
C6_WhitespaceIgnored ==
    (line_read # << >> /\ AllWhitespace(line_read[1])) =>
        /\ Calls(ev) = << >>
        /\ ~Logged(ev, "printf")
        /\ pc = "loop"

\* C6, amended: a line of space characters only is ignored: no handler is
\* called, nothing is reported, no event is drained, the loop goes on.  (A
\* tab is no delimiter: a line with a tab has a first token.)
C6_SpacesIgnored ==
    (line_read # << >> /\ AllSpaces(line_read[1])) =>
        /\ Calls(ev) = << >>
        /\ ~Logged(ev, "printf")
        /\ ~Logged(ev, "sdl_clear_event_queue")
        /\ pc = "loop"

\* a line of two spaces was read and ignored
C6_Witness ==
    /\ line_read = << L_space >>
    /\ ev = << Ev("readline", NULL, 0), Ev("add_history", L_space, 0) >>
    /\ pc = "loop"

\* C7: in batch mode sdb_mainloop calls cmd_c once, which asks cpu_exec to
\* run without bound, and returns: readline is never called, no other
\* handler runs.
C7_BatchRunsOnce ==
    (is_batch_mode /\ pc # "init") =>
        /\ pc = "returned"
        /\ ev = << EvD("call", S_c, 0, "cmd_c"), Ev("cpu_exec", NULL, -1),
                   Ev("return", S_c, 0) >>
        /\ linesRead = 0
        /\ line_read = << >>
        /\ history = << >>

\* sdb_mainloop has run in batch mode
C7_Witness ==
    /\ is_batch_mode
    /\ pc = "returned"
    /\ Logged(ev, "cpu_exec")

\* this step dispatched "w EXPR" with an EXPR whose evaluation fails
WFailStep ==
    /\ LineStep
    /\ Cmd(line_read'[1]) = S_w
    /\ Arg1(line_read'[1]) # NULL
    /\ ~isa_reg_str2val(Arg1(line_read'[1])).success

\* C8: "w EXPR" with an EXPR whose evaluation fails leaves the active list
\* and the free list as they were, so the occupancy is what it was, and no
\* active watchpoint holds EXPR; when a slot was free, it was handed out
\* and released inside the handler, which returned.
C8_FailedWatchRollsBack ==
    [][WFailStep =>
          /\ store'.head = store.head
          /\ store'.free_ = store.free_
          /\ Occupancy(store') = Occupancy(store)
          /\ \A i \in 1 .. Len(store'.head) :
                store'.wp_pool[store'.head[i]].expr # Arg1(line_read'[1])
          /\ store.free_ # << >> =>
                /\ Logged(ev', "free_wp")
                /\ Returns(ev') = << Ev("return", S_w, 0) >>
                /\ pc' = "loop"]_vars

\* "w z" was dispatched while one watchpoint was active and one slot free
C8_Witness ==
    /\ line_read = << L_w_z >>
    /\ Occupancy(store) = 1
    /\ Logged(ev, "free_wp")
    /\ Printed(ev, "Invalid expression\n")

\* this step dispatched "w EXPR" while no slot was free
WExhaustedStep ==
    /\ LineStep
    /\ Cmd(line_read'[1]) = S_w
    /\ Arg1(line_read'[1]) # NULL
    /\ store.free_ = << >>

\* C9: "w EXPR" with no free slot reports the failure and does nothing
\* else: nothing is written through the missing slot, the pool is as it
\* was, the handler returns and the loop goes on.
C9_ExhaustedPoolSkips ==
    [][WExhaustedStep =>
          /\ Logged(ev', "printf")
          /\ ~Logged(ev', "write_null")
          /\ ~Logged(ev', "SIGSEGV")
          /\ store' = store
          /\ pc' = "loop"]_vars

\* every slot is in exactly one of the free list and the active list
PoolPartition ==
    /\ Len(store.head) + Len(store.free_) = NR_WP
    /\ \A i \in Slots : InSeq(store.head, i) # InSeq(store.free_, i)

\* this step dispatched "w EXPR" with a valid EXPR while a slot was free
WOkStep ==
    /\ LineStep
    /\ Cmd(line_read'[1]) = S_w
    /\ Arg1(line_read'[1]) # NULL
    /\ isa_reg_str2val(Arg1(line_read'[1])).success
    /\ store.free_ # << >>

\* this step dispatched "d N" with an N that parses as an integer
DStep ==
    /\ LineStep
    /\ Cmd(line_read'[1]) = S_d
    /\ Arg1(line_read'[1]) # NULL
    /\ ScanDec(Arg1(line_read'[1])).ok

\* the integer N of that step
DId == ScanDec(Arg1(line_read'[1])).val

\* C10: "w EXPR" with a valid EXPR raises the occupancy by one, the new
\* watchpoint having an id that was not active; "d N" with the id of an
\* active watchpoint lowers it by one and releases that watchpoint alone,
\* so w followed by d of its id restores the occupancy; "d N" with an id
\* that is not active (released before, or never allocated) changes
\* nothing; and in every state every slot is in exactly one of the free
\* list and the active list.
C10_PoolRoundTrip ==
    /\ []PoolPartition
    /\ [][WOkStep =>
             /\ Occupancy(store') = Occupancy(store) + 1
             /\ ~InSeq(store.head, store'.head[1])
             /\ Tail(store'.head) = store.head]_vars
    /\ [][DStep =>
             IF InSeq(store.head, DId)
             THEN /\ Occupancy(store') = Occupancy(store) - 1
                  /\ store'.head = SeqWithout(store.head, DId)
                  /\ InSeq(store'.free_, DId)
             ELSE store' = store]_vars

\* "w ra", then "d 0" twice: the pool is empty again
C10_Witness ==
    /\ history = << L_w_ra, L_d_0, L_d_0 >>
    /\ Occupancy(store) = 0
    /\ PoolPartition

-----------------------------------------------------------------------------
\* the releases the last step asked of the pool
Releases(e) == SelectSeq(e, LAMBDA x : x.t = "free_wp_by_num")

\* this step dispatched a line whose first token is "d"
DLineStep == LineStep /\ Cmd(line_read'[1]) = S_d

\* C11: the handler of d asks the pool for a release only when its argument
\* parses as an integer, and then once, with that integer as the id; with
\* no argument or one that does not parse it asks for none and the pool is
\* as it was.
C11_ReleaseOnlyParsedId ==
    [][DLineStep =>
          LET a == Arg1(line_read'[1]) IN
          IF a # NULL /\ ScanDec(a).ok
          THEN Releases(ev') = << Ev("free_wp_by_num", NULL, ScanDec(a).val) >>
          ELSE Releases(ev') = << >> /\ store' = store]_vars

-----------------------------------------------------------------------------
\* the decimal digits and their values
DecDigit ==
    ("0" :> 0) @@ ("1" :> 1) @@ ("2" :> 2) @@ ("3" :> 3) @@ ("4" :> 4) @@
    ("5" :> 5) @@ ("6" :> 6) @@ ("7" :> 7) @@ ("8" :> 8) @@ ("9" :> 9)

\* a is a string of decimal digits
IsNumeral(a) == a # << >> /\ \A i \in 1 .. Len(a) : a[i] \in DOMAIN DecDigit

\* the number a string of decimal digits denotes
RECURSIVE NumeralValue(_)
NumeralValue(a) ==
    IF a = << >> THEN 0
    ELSE 10 * NumeralValue(SubSeq(a, 1, Len(a) - 1)) + DecDigit[a[Len(a)]]

\* a does not begin as an integer does: no digit, and no sign before one
NotAnInteger(a) ==
    /\ a # << >>
    /\ a[1] \notin DOMAIN DecDigit
    /\ ~(a[1] \in {"-", "+"} /\ Len(a) > 1 /\ a[2] \in DOMAIN DecDigit)

\* the requests the last step made of the execution engine
Requests(e) == SelectSeq(e, LAMBDA x : x.t = "cpu_exec")

\* what the last step did from the call of the handler on
RECURSIVE FromCall(_)
FromCall(e) ==
    IF e = << >> THEN << >>
    ELSE IF Head(e).t = "call" THEN e ELSE FromCall(Tail(e))

\* the last step dispatched a line whose first token is "si"
SiLine == line_read # << >> /\ Cmd(line_read[1]) = S_si

\* C12: si with no argument, and si with an argument that does not parse
\* as an integer, do what "si 1" does: one request of 1 instruction; si N
\* with a positive integer N makes one request of N instructions.
C12_StepCount ==
    SiLine =>
        LET a == Arg1(line_read[1]) IN
        /\ (a = NULL \/ NotAnInteger(a)) =>
              FromCall(ev) = << EvD("call", S_si, 0, "cmd_si"),
                                Ev("cpu_exec", NULL, 1), Ev("return", S_si, 0) >>
        /\ (IsNumeral(a) /\ NumeralValue(a) > 0) =>
              FromCall(ev) = << EvD("call", S_si, 0, "cmd_si"),
                                Ev("cpu_exec", NULL, NumeralValue(a)),
                                Ev("return", S_si, 0) >>

\* "si z" was dispatched and asked for one instruction
C12_Witness ==
    /\ line_read = << L_si_z >>
    /\ Requests(ev) = << Ev("cpu_exec", NULL, 1) >>
    /\ pc = "loop"

\* C20: si hands the integer it parsed to cpu_exec as it is: "si -N" asks
\* for -N, so "si -1" makes the request "c" makes, cpu_exec(-1), and "si 0"
\* asks for 0 instructions; nothing is reported and the handler returns 0.
C20_StepUnchecked ==
    /\ SiLine =>
          LET a == Arg1(line_read[1]) IN
          /\ (IsNumeral(a) /\ NumeralValue(a) = 0) =>
                FromCall(ev) = << EvD("call", S_si, 0, "cmd_si"),
                                  Ev("cpu_exec", NULL, 0), Ev("return", S_si, 0) >>
          /\ (Len(a) > 1 /\ a[1] = "-" /\ IsNumeral(Tail(a))) =>
                FromCall(ev) = << EvD("call", S_si, 0, "cmd_si"),
                                  Ev("cpu_exec", NULL, 0 - NumeralValue(Tail(a))),
                                  Ev("return", S_si, 0) >>
    /\ (line_read # << >> /\ Cmd(line_read[1]) = S_c) =>
          Requests(ev) = << Ev("cpu_exec", NULL, -1) >>

\* "si -1" was dispatched and made the request "c" makes
C20_Witness ==
    /\ line_read = << L_si_m1 >>
    /\ Requests(ev) = << Ev("cpu_exec", NULL, -1) >>
    /\ ~Logged(ev, "printf")
    /\ pc = "loop"

-----------------------------------------------------------------------------
\* the address k bytes after a, modulo 2^32
AddrPlus(a, k) ==
    LET t == a.lo + k IN Addr((a.hi + (t \div Half)) % Half, t % Half)

\* what cmd_x did: the log between its call and its return
XLog(e) == LET f == FromCall(e) IN SubSeq(f, 2, Len(f) - 1)

\* the last step dispatched a line whose first token is "x"
XLine == line_read # << >> /\ Cmd(line_read[1]) = S_x

\* the second argument of a line
Arg2(l) ==
    LET c == strtok(l, 1)
        a == strtok(l, c.next)
    IN strtok(l, a.next).tok

\* C13: "x N ADDR", N >= 0, emits N rows; row i (from 0) is the label
\* ADDR+4i, then four reads of one byte at ADDR+4i .. ADDR+4i+3, each
\* printed, then the end of the line, so the 4N reads are at the addresses
\* ADDR, ADDR+1, ... in order (modulo 2^32); with an argument missing the
\* usage is printed and no memory is read.
C13_ScanRows ==
    XLine =>
        LET l == line_read[1]
            x == XLog(ev)
        IN IF Arg1(l) = NULL \/ Arg2(l) = NULL
           THEN x = << printf("x N EXPR: scan memory\n", NULL, 0) >>
           ELSE (IsNumeral(Arg1(l)) /\ ScanHex(Arg2(l)).ok) =>
                LET n == NumeralValue(Arg1(l))
                    a == ScanHex(Arg2(l)).val
                IN /\ Len(x) = 10 * n
                   /\ Len(SelectSeq(x, LAMBDA y : y.t = "vaddr_read")) = 4 * n
                   /\ \A i \in 0 .. (n - 1) :
                         /\ x[10 * i + 1] = printfA("0x%08x: ", AddrPlus(a, 4 * i))
                         /\ \A j \in 0 .. 3 :
                               /\ x[10 * i + 2 + 2 * j]
                                     = EvA("vaddr_read", AddrPlus(a, 4 * i + j))
                               /\ x[10 * i + 3 + 2 * j].t = "printf"
                         /\ x[10 * i + 10] = printf("\n", NULL, 0)

\* "x 2 0x1000" was dispatched: two rows, the second labelled 0x1004, the
\* last read at 0x1007
C13_Witness ==
    /\ line_read = << L_x_2_0x1000 >>
    /\ Len(XLog(ev)) = 20
    /\ XLog(ev)[1] = printfA("0x%08x: ", Addr(0, 4096))
    /\ XLog(ev)[11] = printfA("0x%08x: ", Addr(0, 4100))
    /\ XLog(ev)[18] = EvA("vaddr_read", Addr(0, 4103))

-----------------------------------------------------------------------------
\* the register dumps the last step asked for
Dumps(e) == SelectSeq(e, LAMBDA x : x.t = "isa_reg_display")

\* C14: "info r" asks the register subsystem for its dump exactly once;
\* info with any other sub-argument, "w" included, prints a usage text and
\* asks for no dump.
C14_InfoDump ==
    (line_read # << >> /\ Cmd(line_read[1]) = S_info /\ Arg1(line_read[1]) # NULL) =>
        IF Arg1(line_read[1]) = S_r
        THEN Len(Dumps(ev)) = 1
        ELSE Logged(ev, "printf") /\ Dumps(ev) = << >>

-----------------------------------------------------------------------------
\* what the handler did: the log between its call and its return
HandlerLog(e) == LET f == FromCall(e) IN SubSeq(f, 2, Len(f) - 1)

\* the entry prints the name and the description of command i of the table
Describes(x, i) ==
    /\ x.t = "printf"
    /\ x.s = cmd_table[i].name
    /\ x.d = cmd_table[i].description

\* C15: help with no argument lists every command of the table once, name
\* and description, in the order of the table; "help NAME" describes the
\* command named NAME alone when there is one, and reports NAME as unknown
\* otherwise; help calls no other handler and returns 0.
C15_Help ==
    (line_read # << >> /\ Cmd(line_read[1]) = S_help) =>
        LET a == Arg1(line_read[1])
            x == HandlerLog(ev)
        IN /\ Calls(ev) = << EvD("call", S_help, 0, "cmd_help") >>
           /\ Returns(ev) = << Ev("return", S_help, 0) >>
           /\ IF a = NULL
              THEN Len(x) = NR_CMD /\ \A i \in 1 .. NR_CMD : Describes(x[i], i)
              ELSE IF a \in CmdNames
              THEN /\ Len(x) = 1
                   /\ \E i \in 1 .. NR_CMD : cmd_table[i].name = a /\ Describes(x[1], i)
              ELSE x = << printf("Unknown command '%s'\n", a, 0) >>

-----------------------------------------------------------------------------
\* the lines readline returned before its last call
ReturnedBefore ==
    IF line_read = << >> THEN returned ELSE SubSeq(returned, 1, Len(returned) - 1)

\* C16: the history is the lines readline has returned that are not empty,
\* in order, each once; and rl_gets holds one buffer at most: the buffer
\* of the line before is freed before readline is called again, and
\* line_read is the last line returned, or NULL at the end of the input.
C16_History ==
    /\ history = SelectSeq(returned, LAMBDA l : l # << >>)
    /\ Len(line_read) <= 1
    /\ line_read # << >> => line_read[1] = returned[Len(returned)]
    /\ linesRead >= 1 =>
          /\ Len(SelectSeq(ev, LAMBDA x : x.t = "readline")) = 1
          /\ IF ReturnedBefore = << >>
             THEN ev[1].t = "readline" /\ ~Logged(ev, "free")
             ELSE /\ ev[1] = Ev("free", ReturnedBefore[Len(ReturnedBefore)], 0)
                  /\ ev[2].t = "readline"
                  /\ Len(SelectSeq(ev, LAMBDA x : x.t = "free")) = 1

\* four lines were returned, two of them empty: the history has the other
\* two
C16_Witness ==
    /\ returned = << L_empty, L_space, L_empty, L_z >>
    /\ history = << L_space, L_z >>
    /\ line_read = << L_z >>
    /\ ev[1] = Ev("free", L_empty, 0)

-----------------------------------------------------------------------------
\* this step dispatched a line whose first token is "p"
PStep == LineStep /\ Cmd(line_read'[1]) = S_p

\* C17: "p EXPR" evaluates its first argument token once and prints the
\* value when the evaluation succeeds, "Invalid expression" when it fails;
\* p with no argument prints its usage and evaluates nothing; in every case
\* the pool and the run state are as they were and the handler returns 0.
C17_PrintExpr ==
    [][PStep =>
          LET a == Arg1(line_read'[1]) IN
          /\ store' = store
          /\ nemu_state' = nemu_state
          /\ Returns(ev') = << Ev("return", S_p, 0) >>
          /\ HandlerLog(ev') =
                IF a = NULL
                THEN << printf("p EXPR: print the value of expression\n", NULL, 0) >>
                ELSE IF isa_reg_str2val(a).success
                THEN << Ev("isa_reg_str2val", a, 0),
                        printf("%d\n", NULL, isa_reg_str2val(a).value) >>
                ELSE << Ev("isa_reg_str2val", a, 0),
                        printf("Invalid expression\n", NULL, 0) >>]_vars

\* "p z" was dispatched while a watchpoint was active
C17_Witness ==
    /\ line_read = << L_p_z >>
    /\ Occupancy(store) = 1
    /\ Printed(ev, "Invalid expression\n")
    /\ Len(SelectSeq(ev, LAMBDA x : x.t = "isa_reg_str2val")) = 1

\* this step dispatched "w" with no expression
WUsageStep ==
    /\ LineStep
    /\ Cmd(line_read'[1]) = S_w
    /\ Arg1(line_read'[1]) = NULL

\* C18: w with no expression prints its usage and neither allocates nor
\* evaluates: the pool is as it was; "w EXPR" with an EXPR that evaluates,
\* given a free slot, puts one watchpoint more on the active list, whose
\* expression is EXPR and whose value is the result of the evaluation, and
\* leaves the watchpoints that were active as they were.
C18_WatchSet ==
    [][/\ WUsageStep =>
             /\ store' = store
             /\ HandlerLog(ev') = << printf("w EXPR: set watchpoint\n", NULL, 0) >>
       /\ WOkStep =>
             LET a == Arg1(line_read'[1])
                 k == store'.head[1]
             IN /\ store'.head = << k >> \o store.head
                /\ ~InSeq(store.head, k)
                /\ store'.free_ = SeqWithout(store.free_, k)
                /\ store'.wp_pool[k] =
                      [expr |-> a, value |-> isa_reg_str2val(a).value]
                /\ \A i \in 1 .. Len(store.head) :
                      store'.wp_pool[store.head[i]] = store.wp_pool[store.head[i]]
                /\ Len(SelectSeq(ev', LAMBDA x : x.t = "isa_reg_str2val")) = 1
                /\ Returns(ev') = << Ev("return", S_w, 0) >>]_vars

\* "w ra", then "w  sp ": two active watchpoints, on sp and on ra
C18_Witness ==
    /\ returned = << L_w_ra, L_w_sp >>
    /\ Occupancy(store) = 2
    /\ store.wp_pool[store.head[1]] = [expr |-> S_sp, value |-> 2]
    /\ store.wp_pool[store.head[2]] = [expr |-> S_ra, value |-> 1]

-----------------------------------------------------------------------------
\* this step dispatched a line that has a first token
DispatchStep == LineStep /\ Cmd(line_read'[1]) # NULL

\* this step is sdb_mainloop in batch mode
BatchStep == is_batch_mode /\ pc = "init" /\ pc' = "returned"

\* the place of the first entry of kind t in the log e, 0 when there is none
RECURSIVE IndexOf(_, _, _)
IndexOf(e, t, i) ==
    IF i > Len(e) THEN 0
    ELSE IF e[i].t = t THEN i ELSE IndexOf(e, t, i + 1)

\* C19: in a build with CONFIG_DEVICE, every line that has a first token
\* has the pending events drained once, after the line is read and before
\* its handler is called or anything is reported, and none is pending
\* after; in a build without, nothing is drained.  In either build one
\* line is read per iteration and the handler called is the one the line
\* names: draining takes no line.  In batch mode nothing is drained.
C19_DrainBeforeDispatch ==
    [][/\ (DispatchStep /\ config_device) =>
             LET k == IndexOf(ev', "sdl_clear_event_queue", 1) IN
             /\ k > 0
             /\ Len(SelectSeq(ev', LAMBDA x : x.t = "sdl_clear_event_queue")) = 1
             /\ \A i \in 1 .. (k - 1) : ev'[i].t \in {"free", "readline", "add_history"}
             /\ \A i \in (k + 1) .. Len(ev') :
                   ev'[i].t \notin {"free", "readline", "add_history"}
             /\ sdl_events' = 0
       /\ (DispatchStep /\ ~config_device) =>
             /\ ~Logged(ev', "sdl_clear_event_queue")
             /\ sdl_events' = sdl_events
       /\ LineStep =>
             /\ Len(SelectSeq(ev', LAMBDA x : x.t = "readline")) = 1
             /\ returned' = Append(returned, line_read'[1])
             /\ Calls(ev') =
                   IF Cmd(line_read'[1]) \in CmdNames
                   THEN << EvD("call", Cmd(line_read'[1]), 0,
                               Registered(Cmd(line_read'[1]))) >>
                   ELSE << >>
       /\ BatchStep =>
             /\ ~Logged(ev', "sdl_clear_event_queue")
             /\ ~Logged(ev', "readline")
             /\ sdl_events' = sdl_events]_vars

\* "c" was dispatched in a build with CONFIG_DEVICE: the queue was drained
\* between the reading of the line and the call of cmd_c
C19_Witness ==
    /\ config_device
    /\ line_read = << L_c >>
    /\ ev = << Ev("readline", NULL, 0), Ev("add_history", L_c, 0),
               sdl_clear_event_queue, EvD("call", S_c, 0, "cmd_c"),
               Ev("cpu_exec", NULL, -1), Ev("return", S_c, 0) >>
    /\ sdl_events = 0

=============================================================================
